---- MODULE Spec2Model ----
(***************************************************************************)
(* Model of the document-indexing pipeline of LIAR:                        *)
(*   - DocumentProcessor._chunk_text           (src/src/processors.py)     *)
(*   - BaseProcessor buffer: _add_to_buffer, _flush_batch, finalize        *)
(*   - DocumentProcessor.process_file                                      *)
(*   - IndexingService.index_file / index_documents (src/src/services.py)  *)
(*                                                                         *)
(* Specifications:                                                         *)
(*   SpecChunk : the chunker applied to every bounded text                 *)
(*   SpecBuf   : sequential calls of the buffer's methods                  *)
(*   Spec      : one IndexingService: index_file calls and directory runs  *)
(*   SpecConc  : the buffer's methods entered by several threads at once   *)
(***************************************************************************)
EXTENDS Integers, Sequences, FiniteSets, TLC

\* ---------------------------------------------------------------- bounds
MaxTextLen == 5
MaxChunkSize == 4
MaxBatchSize == 3
MaxAdds == 6
MaxFlushCalls == 2
MaxFinalizeCalls == 2
MaxWorkers == 2
MaxRuns == 2
MaxIndexCalls == 2

\* ------------------------------------------------------------- variables
VARIABLES
    text,             \* chunker harness: the argument of _chunk_text
    chunks,           \* chunker harness: the list _chunk_text returned
    cpc,              \* chunker harness: "input" | "chunked"
    chunk_size,       \* BaseProcessor.chunk_size
    batch_size,       \* BaseProcessor.batch_size
    buffer,           \* BaseProcessor.buffer
    processed_count,  \* BaseProcessor.processed_count
    upsertLog,        \* the upsert calls the store received: [points, ok]
    nextId,           \* source of fresh uuid4 identifiers
    calls,            \* number of add / flush / finalize calls made so far
    lastCall,         \* the last buffer call: [op, raised, sent]
    content,          \* per file: the text its extractor returns
    dirFiles,         \* the files found under docs_path
    num_workers,      \* IndexingService.num_workers
    pc,               \* index_documents: "idle" | "pool" | "finalize" | "stamp"
    document_files,   \* index_documents: the files of the current run
    task,             \* per file of the run: the state of its future
    result,           \* per file of the run: what its future returned
    stats,            \* IndexingService.stats
    clock,            \* datetime.now()
    start_time,       \* index_documents: local start_time
    runs,             \* number of index_documents calls that have returned
    lastRun,          \* how the last index_documents call ended
    indexCalls,       \* number of index_file calls made
    lastIndex,        \* the last index_file call: what it returned and did
    dispatched,       \* per file of the run: how often a pool thread took it
    thr,              \* per pool thread: its place in process_file's chunk loop
    collection,       \* the points held by the default collection of the store
    shift,            \* qdrant_config.shift
    spc,              \* search: "idle" | "search" | "expand" | "respond" | "returned"
    request,          \* the arguments of the search call in progress
    query_embedding,  \* search: what _create_query_embedding returned
    search_results,   \* search_similar: the hits not yet looked at
    results,          \* search_similar: the SearchResults built so far
    expanded,         \* the hit each entry of results was built from
    response,         \* the SearchResponse of the last search call
    lastSearch,       \* the search call: which steps raised, calls made
    reachable,        \* the vector store answers requests
    store,            \* per collection name: does it exist, how often created
    configured,       \* qdrant_config.collections: the names, in dict order
    lastCreate,       \* the last collection call of QdrantManager
    storeCalls,       \* number of QdrantManager collection calls made
    requests_installed, \* the package requests can be imported
    config_ok,        \* /configs/quadrant.yaml can be loaded
    managers_module,  \* sys.modules: "unloaded" | "loaded" (src.managers)
    checks,           \* what the last all_check / health_check returned
    cache,            \* lru_cache of get_embedding_model: 0 or the instance
    constructed,      \* number of SentenceTransformer instances constructed
    caller            \* per thread: its place in get_embedding_model

chunkVars == <<text, chunks, cpc>>
confVars == <<chunk_size, batch_size>>
bufVars == <<buffer, processed_count, upsertLog, nextId, calls, lastCall>>
fileVars == <<content, dirFiles, num_workers>>
runVars == <<pc, document_files, task, result, stats, clock, start_time, runs, lastRun,
             dispatched>>
indexVars == <<indexCalls, lastIndex>>
svcVars == <<fileVars, runVars, indexVars>>
concVars == <<thr>>
searchVars == <<collection, shift, spc, request, query_embedding, search_results,
                results, expanded, response, lastSearch>>
storeVars == <<reachable, store, configured, lastCreate, storeCalls,
               requests_installed, config_ok, managers_module, checks>>
modelVars == <<cache, constructed, caller>>
opsVars == <<storeVars, modelVars>>
vars == <<chunkVars, confVars, bufVars, svcVars, concVars, searchVars, opsVars>>

\* ------------------------------------------------------------ the chunker
\* Text is a sequence of characters; str.split() breaks it on whitespace.
Whitespace == {" ", "\n"}
Letters == {"a", "b"}
Chars == Letters \cup Whitespace

RECURSIVE SplitAcc(_, _, _, _)
SplitAcc(s, i, cur, out) ==
    IF i > Len(s)
    THEN IF cur = <<>> THEN out ELSE Append(out, cur)
    ELSE IF s[i] \in Whitespace
         THEN SplitAcc(s, i + 1, <<>>, IF cur = <<>> THEN out ELSE Append(out, cur))
         ELSE SplitAcc(s, i + 1, Append(cur, s[i]), out)

\* text.split()
Split(s) == SplitAcc(s, 1, <<>>, <<>>)

\* mutant: "".join(words)
RECURSIVE JoinNoSeparator(_)
JoinNoSeparator(words) ==
    IF words = <<>> THEN <<>> ELSE words[1] \o JoinNoSeparator(Tail(words))

\* " ".join(words)
RECURSIVE Join(_)
Join(words) ==
    IF words = <<>> THEN <<>>
    ELSE IF Len(words) = 1 THEN words[1]
    ELSE words[1] \o <<" ">> \o Join(Tail(words))

\* text.strip() is empty
IsBlank(s) == \A i \in 1..Len(s) : s[i] \in Whitespace

\* mutant: the separator is not counted when a word is tried for fit
RECURSIVE ChunkLoopNoSeparator(_, _, _, _, _, _)
ChunkLoopNoSeparator(words, i, max_len, out, current_chunk, current_length) ==
    IF i > Len(words)
    THEN IF current_chunk # <<>> THEN Append(out, Join(current_chunk)) ELSE out
    ELSE LET word == words[i] IN
         IF current_length + Len(word) > max_len /\ current_chunk # <<>>
         THEN ChunkLoopNoSeparator(words, i + 1, max_len,
                        Append(out, Join(current_chunk)), <<word>>, Len(word))
         ELSE ChunkLoopNoSeparator(words, i + 1, max_len,
                        out, Append(current_chunk, word),
                        current_length + Len(word) + 1)

\* mutant: a chunk is closed without looking whether it holds a word
RECURSIVE ChunkLoopClosesEmpty(_, _, _, _, _, _)
ChunkLoopClosesEmpty(words, i, max_len, out, current_chunk, current_length) ==
    IF i > Len(words)
    THEN IF current_chunk # <<>> THEN Append(out, Join(current_chunk)) ELSE out
    ELSE LET word == words[i] IN
         IF current_length + Len(word) + 1 > max_len
         THEN ChunkLoopClosesEmpty(words, i + 1, max_len,
                        Append(out, Join(current_chunk)), <<word>>, Len(word))
         ELSE ChunkLoopClosesEmpty(words, i + 1, max_len,
                        out, Append(current_chunk, word),
                        current_length + Len(word) + 1)

\* the for loop of _chunk_text, from word i on
RECURSIVE ChunkLoop(_, _, _, _, _, _)
ChunkLoop(words, i, max_len, out, current_chunk, current_length) ==
    IF i > Len(words)
    THEN IF current_chunk # <<>> THEN Append(out, Join(current_chunk)) ELSE out
    ELSE LET word == words[i] IN
         IF current_length + Len(word) + 1 > max_len /\ current_chunk # <<>>
         THEN ChunkLoop(words, i + 1, max_len,
                        Append(out, Join(current_chunk)), <<word>>, Len(word))
         ELSE ChunkLoop(words, i + 1, max_len,
                        out, Append(current_chunk, word),
                        current_length + Len(word) + 1)

ChunkText(t, max_len) == ChunkLoop(Split(t), 1, max_len, <<>>, <<>>, 0)

\* all texts of at most n characters
RECURSIVE Texts(_)
Texts(n) ==
    IF n = 0 THEN {<<>>}
    ELSE LET shorter == Texts(n - 1) IN
         shorter \cup {Append(s, c) : s \in {x \in shorter : Len(x) = n - 1}, c \in Chars}

RECURSIVE Flatten(_)
Flatten(ss) == IF ss = <<>> THEN <<>> ELSE Head(ss) \o Flatten(Tail(ss))

\* the words of every chunk, in chunk order
WordsOfChunks(cs) == Flatten([k \in 1..Len(cs) |-> Split(cs[k])])

\* ------------------------------------------------------ default sub-states
ChunkIdle == text = <<>> /\ chunks = <<>> /\ cpc = "idle"
BufEmpty ==
    /\ buffer = <<>>
    /\ processed_count = 0
    /\ upsertLog = <<>>
    /\ nextId = 1
    /\ calls = [add |-> 0, flush |-> 0, finalize |-> 0]
    /\ lastCall = [op |-> "none", raised |-> FALSE, sent |-> FALSE]

\* IndexingService.__init__: the statistics object (start_time = now = 0;
\* end_time = None is written -1, every clock reading being in Nat)
InitialStats ==
    [total_files_processed |-> 0,
     successful_files |-> 0,
     failed_files |-> 0,
     total_chunks_created |-> 0,
     processing_time |-> 0,
     start_time |-> 0,
     end_time |-> -1]

ServiceIdle ==
    /\ pc = "idle"
    /\ document_files = {}
    /\ task = << >>
    /\ result = << >>
    /\ dispatched = << >>
    /\ stats = InitialStats
    /\ clock = 0
    /\ start_time = 0
    /\ runs = 0
    /\ lastRun = [outcome |-> "none", flushFailed |-> FALSE, finalized |-> FALSE]
    /\ indexCalls = 0
    /\ lastIndex = [file |-> "none", ret |-> FALSE, first |-> 1, embeds |-> 0,
                    embFailed |-> {}, raised |-> FALSE]

NoFiles == content = << >> /\ dirFiles = {} /\ num_workers = 1

\* the threads a pool of the largest configured size can run
Threads == 1..MaxWorkers
ThreadIdle == [pc |-> "idle", todo |-> 0, exc |-> FALSE, ret |-> FALSE]
ThreadsIdle == thr = [t \in Threads |-> ThreadIdle]

\* no search call has been made
NoRequest ==
    [query |-> <<>>, limit |-> 0, score_threshold |-> 0, file_types |-> <<>>,
     metadata_filter |-> <<>>]
NoEmbedding == [dim |-> 0, zero |-> TRUE, of |-> <<>>]
NoResponse ==
    [results |-> <<>>, total_found |-> 0, query_embedding |-> NoEmbedding,
     returned |-> FALSE]
\* search_filter = None
NoFilter == [given |-> FALSE, should |-> <<>>]
NoSearch ==
    [raised |-> {}, encoderCalls |-> 0, searchCalls |-> 0, scrollCalls |-> 0,
     query_vector |-> NoEmbedding, search_filter |-> NoFilter, hits |-> <<>>]

SearchIdle ==
    /\ spc = "idle"
    /\ request = NoRequest
    /\ query_embedding = NoEmbedding
    /\ search_results = <<>>
    /\ results = <<>>
    /\ expanded = <<>>
    /\ response = NoResponse
    /\ lastSearch = NoSearch

NoStore == collection = {} /\ shift = 0

\* the collections of the store and the health check: nothing configured,
\* nothing called
CollectionNames == {"documents", "media", "notes"}
NoCreate == [op |-> "none", issued |-> <<>>, raised |-> FALSE]
NoChecks ==
    [healthy |-> TRUE, python_ssh |-> "", qdrant |-> "", status |-> "",
     failed |-> {}, store_reachable |-> TRUE]

StoreIdle ==
    /\ reachable = TRUE
    /\ store = [n \in CollectionNames |-> [exists |-> FALSE, created |-> 0]]
    /\ configured = <<>>
    /\ lastCreate = NoCreate
    /\ storeCalls = 0
    /\ requests_installed = TRUE
    /\ config_ok = TRUE
    /\ managers_module = "unloaded"
    /\ checks = NoChecks

\* get_embedding_model has not been called
CallerIdle == [pc |-> "idle", mine |-> 0, got |-> 0, calls |-> 0]
ModelIdle ==
    /\ cache = 0
    /\ constructed = 0
    /\ caller = [t \in Threads |-> CallerIdle]

OpsIdle == StoreIdle /\ ModelIdle

\* ------------------------------------------------------------- SpecChunk
InitChunk ==
    /\ text \in Texts(MaxTextLen)
    /\ chunk_size \in 1..MaxChunkSize
    /\ chunks = <<>>
    /\ cpc = "input"
    /\ batch_size = 1
    /\ BufEmpty
    /\ NoFiles
    /\ ServiceIdle
    /\ ThreadsIdle
    /\ NoStore
    /\ SearchIdle
    /\ OpsIdle

\* chunks = self._chunk_text(text)
CallChunkText ==
    /\ cpc = "input"
    /\ chunks' = ChunkText(text, chunk_size)
    /\ cpc' = "chunked"
    /\ UNCHANGED <<text, confVars, bufVars, svcVars, concVars>>
    /\ UNCHANGED searchVars
    /\ UNCHANGED opsVars

NextChunk == CallChunkText
SpecChunk == InitChunk /\ [][NextChunk]_vars

\* C9: splitting every chunk on whitespace and concatenating in chunk order
\* gives exactly the whitespace-split word sequence of the input text.
C9_WordRoundTrip == cpc = "chunked" => WordsOfChunks(chunks) = Split(text)

\* a text of at least three words that was cut into at least two chunks
C9_Witness == cpc = "chunked" /\ Len(chunks) >= 2 /\ Len(Split(text)) >= 3

\* C10: every chunk is at most max_len long, except a chunk that is one
\* single word longer than max_len (that word, whole and alone).
C10_ChunkLength ==
    cpc = "chunked" =>
        \A k \in 1..Len(chunks) :
            \/ Len(chunks[k]) <= chunk_size
            \/ /\ Split(chunks[k]) = <<chunks[k]>>
               /\ \E w \in 1..Len(Split(text)) : Split(text)[w] = chunks[k]

\* an over-long word between other words, alone in its chunk
C10_Witness ==
    /\ cpc = "chunked"
    /\ Len(chunks) >= 2
    /\ \E k \in 1..Len(chunks) : Len(chunks[k]) > chunk_size

\* C11: empty or whitespace-only text gives no chunk; any other text gives
\* at least one chunk, and no chunk is empty or blank.
C11_BlankInputNoChunks ==
    cpc = "chunked" =>
        /\ IsBlank(text) => chunks = <<>>
        /\ ~IsBlank(text) =>
              /\ Len(chunks) >= 1
              /\ \A k \in 1..Len(chunks) : ~IsBlank(chunks[k])

\* a text of several whitespace characters was chunked into nothing
C11_Witness ==
    /\ cpc = "chunked"
    /\ Len(text) >= 2
    /\ IsBlank(text)
    /\ chunks = <<>>

\* C28: between two consecutive chunks the first word of the later chunk
\* did not fit the earlier one: len(c_i) + 1 + len(w) > max_len, for the
\* first chunk as for every later one.
C28_GreedyMaximal ==
    cpc = "chunked" =>
        \A k \in 1..(Len(chunks) - 1) :
            Len(chunks[k]) + 1 + Len(Split(chunks[k + 1])[1]) > chunk_size

\* ------------------------------------------------------- the point buffer
None == "None"

\* BaseProcessor._create_point: a fresh uuid4 when no id is supplied
CreatePoint(vector, payload, point_id, fresh) ==
    [id |-> IF point_id = None THEN fresh ELSE point_id,
     vector |-> vector,
     payload |-> payload]

\* mutant: the buffer is cleared only after a successful upsert
FlushBatchKeepOnFailure(buf, cnt, ok) ==
    [buffer |-> IF ok THEN <<>> ELSE buf,
     processed_count |-> IF ok THEN cnt + Len(buf) ELSE cnt,
     raised |-> ~ok,
     upserted |-> TRUE,
     batch |-> buf]

\* mutant: the batch is counted before the upsert is attempted
FlushBatchCountFirst(buf, cnt, ok) ==
    [buffer |-> <<>>,
     processed_count |-> cnt + Len(buf),
     raised |-> ~ok,
     upserted |-> TRUE,
     batch |-> buf]

\* mutant: batches are counted instead of points
FlushBatchCountsBatches(buf, cnt, ok) ==
    [buffer |-> <<>>,
     processed_count |-> IF ok THEN cnt + 1 ELSE cnt,
     raised |-> ~ok,
     upserted |-> TRUE,
     batch |-> buf]

\* BaseProcessor._flush_batch with the store's answer `ok`:
\* upsert(points=buffer); count on success; re-raise on failure; clear always.
FlushBatch(buf, cnt, ok) ==
    [buffer |-> <<>>,
     processed_count |-> IF ok THEN cnt + Len(buf) ELSE cnt,
     raised |-> ~ok,
     upserted |-> TRUE,
     batch |-> buf]

NoFlush(buf, cnt) ==
    [buffer |-> buf, processed_count |-> cnt, raised |-> FALSE,
     upserted |-> FALSE, batch |-> <<>>]

\* mutant: the flush is triggered only above batch_size
AddToBufferAbove(buf, cnt, bsize, point, ok) ==
    LET appended == Append(buf, point) IN
    IF Len(appended) > bsize
    THEN FlushBatch(appended, cnt, ok)
    ELSE NoFlush(appended, cnt)

\* BaseProcessor._add_to_buffer
AddToBuffer(buf, cnt, bsize, point, ok) ==
    LET appended == Append(buf, point) IN
    IF Len(appended) >= bsize
    THEN FlushBatch(appended, cnt, ok)
    ELSE NoFlush(appended, cnt)

\* mutant: finalize flushes without looking at the buffer
FinalizeAlways(buf, cnt, ok) == FlushBatch(buf, cnt, ok)

\* BaseProcessor.finalize
Finalize(buf, cnt, ok) ==
    IF buf # <<>> THEN FlushBatch(buf, cnt, ok) ELSE NoFlush(buf, cnt)

\* the store's record of one buffer call
Logged(log, r) ==
    IF r.upserted THEN Append(log, [points |-> r.batch, ok |-> ~r.raised]) ELSE log

\* ---------------------------------------------------------------- SpecBuf
InitBuf ==
    /\ ChunkIdle
    /\ chunk_size = 1
    /\ batch_size \in 1..MaxBatchSize
    /\ BufEmpty
    /\ NoFiles
    /\ ServiceIdle
    /\ ThreadsIdle
    /\ NoStore
    /\ SearchIdle
    /\ OpsIdle

\* a caller adds one new point; the store answers `ok` if a flush is triggered
Add(ok) ==
    /\ calls.add < MaxAdds
    /\ LET point == CreatePoint("v", "payload", None, nextId)
           r == AddToBuffer(buffer, processed_count, batch_size, point, ok)
       IN /\ buffer' = r.buffer
          /\ processed_count' = r.processed_count
          /\ upsertLog' = Logged(upsertLog, r)
          /\ lastCall' = [op |-> "add", raised |-> r.raised, sent |-> r.upserted]
    /\ nextId' = nextId + 1
    /\ calls' = [calls EXCEPT !.add = @ + 1]
    /\ UNCHANGED <<concVars, chunkVars, confVars, svcVars>>
    /\ UNCHANGED searchVars
    /\ UNCHANGED opsVars

\* a caller flushes whatever is buffered
Flush(ok) ==
    /\ calls.flush < MaxFlushCalls
    /\ LET r == FlushBatch(buffer, processed_count, ok)
       IN /\ buffer' = r.buffer
          /\ processed_count' = r.processed_count
          /\ upsertLog' = Logged(upsertLog, r)
          /\ lastCall' = [op |-> "flush", raised |-> r.raised, sent |-> r.upserted]
    /\ calls' = [calls EXCEPT !.flush = @ + 1]
    /\ UNCHANGED <<concVars, chunkVars, confVars, nextId, svcVars>>
    /\ UNCHANGED searchVars
    /\ UNCHANGED opsVars

FinalizeCall(ok) ==
    /\ calls.finalize < MaxFinalizeCalls
    /\ LET r == Finalize(buffer, processed_count, ok)
       IN /\ buffer' = r.buffer
          /\ processed_count' = r.processed_count
          /\ upsertLog' = Logged(upsertLog, r)
          /\ lastCall' = [op |-> "finalize", raised |-> r.raised, sent |-> r.upserted]
    /\ calls' = [calls EXCEPT !.finalize = @ + 1]
    /\ UNCHANGED <<concVars, chunkVars, confVars, nextId, svcVars>>
    /\ UNCHANGED searchVars
    /\ UNCHANGED opsVars

NextBuf ==
    \/ \E ok \in BOOLEAN : Add(ok)
    \/ \E ok \in BOOLEAN : Flush(ok)
    \/ \E ok \in BOOLEAN : FinalizeCall(ok)

SpecBuf == InitBuf /\ [][NextBuf]_vars

\* ids of a sequence of points
Ids(ps) == [k \in 1..Len(ps) |-> ps[k].id]
\* how often id occurs in a sequence of points
Occurs(id, ps) == Cardinality({k \in 1..Len(ps) : ps[k].id = id})
RECURSIVE SumOver(_, _)
SumOver(f, n) == IF n = 0 THEN 0 ELSE f[n] + SumOver(f, n - 1)
\* how often id was part of an upsert call with the given outcomes
SentTimes(id, oks) ==
    SumOver([k \in 1..Len(upsertLog) |->
                IF upsertLog[k].ok \in oks THEN Occurs(id, upsertLog[k].points) ELSE 0],
            Len(upsertLog))
AllAccepted == \A k \in 1..Len(upsertLog) : upsertLog[k].ok
OnlyAdds == calls.flush = 0 /\ calls.finalize = 0

\* C4: at-most-once delivery: no point is ever part of more than one upsert
\* call, whatever the upsert outcomes were.
C4_AtMostOnce == \A id \in 1..(nextId - 1) : SentTimes(id, BOOLEAN) <= 1

\* a batch whose upsert failed, and a later upsert of other points
C4_Witness ==
    \E i, j \in 1..Len(upsertLog) :
        /\ i < j
        /\ ~upsertLog[i].ok
        /\ upsertLog[i].points # <<>>
        /\ upsertLog[j].points # <<>>

\* C5: a flush whose upsert raises leaves the buffer empty, leaves
\* processed_count unchanged and raises to the caller of add / finalize.
C5_FlushFailure ==
    [][(/\ Len(upsertLog') = Len(upsertLog) + 1
        /\ ~upsertLog'[Len(upsertLog')].ok)
       => (/\ buffer' = <<>>
           /\ processed_count' = processed_count
           /\ lastCall'.raised
           /\ \A id \in 1..(nextId' - 1) : Occurs(id, buffer') = 0)]_vars

\* an add whose flush failed after earlier points had been written
C5_Witness ==
    /\ lastCall.op = "add"
    /\ lastCall.raised
    /\ processed_count > 0
    /\ buffer = <<>>

\* C6: from an empty buffer, after k adds against an accepting store there
\* were floor(k / batch_size) upserts of batch_size points each, in insertion
\* order, and k mod batch_size points are buffered.
C6_BatchPerBatchSize ==
    (OnlyAdds /\ AllAccepted) =>
        /\ Len(upsertLog) = calls.add \div batch_size
        /\ \A k \in 1..Len(upsertLog) :
              Ids(upsertLog[k].points) =
                  [p \in 1..batch_size |-> (k - 1) * batch_size + p]
        /\ Len(buffer) = calls.add % batch_size
        /\ Len(buffer) < batch_size
        /\ Ids(buffer) =
              [p \in 1..Len(buffer) |-> Len(upsertLog) * batch_size + p]

\* exactly batch_size adds: one flush, buffer empty
C6_Witness ==
    /\ OnlyAdds /\ AllAccepted
    /\ batch_size > 1
    /\ calls.add = batch_size
    /\ Len(upsertLog) = 1
    /\ buffer = <<>>

\* C7: after finalize (returning or raising) the buffer is empty, and
\* finalize on an empty buffer performs no upsert.
C7_FinalizeEmpties ==
    [][calls'.finalize = calls.finalize + 1
       => (/\ buffer' = <<>>
           /\ (buffer = <<>> => upsertLog' = upsertLog)
           /\ (buffer # <<>> => Len(upsertLog') = Len(upsertLog) + 1))]_vars

\* finalize raised on a partial batch
C7_Witness ==
    /\ lastCall.op = "finalize"
    /\ lastCall.raised
    /\ upsertLog # <<>>
    /\ Len(upsertLog[Len(upsertLog)].points) < batch_size

\* C8: processed_count is the number of points in successful upserts, and
\* every added point is in exactly one of: the buffer, a successful upsert,
\* a failed batch.
C8_CountAndPartition ==
    /\ processed_count =
          SumOver([k \in 1..Len(upsertLog) |->
                      IF upsertLog[k].ok THEN Len(upsertLog[k].points) ELSE 0],
                  Len(upsertLog))
    /\ \A id \in 1..(nextId - 1) :
          Occurs(id, buffer) + SentTimes(id, {TRUE}) + SentTimes(id, {FALSE}) = 1

\* finalize wrote a partial batch after one batch was written and one dropped
C8_Witness ==
    /\ lastCall.op = "finalize"
    /\ lastCall.sent
    /\ ~lastCall.raised
    /\ \E k \in 1..Len(upsertLog) : ~upsertLog[k].ok /\ upsertLog[k].points # <<>>
    /\ processed_count > Len(upsertLog[Len(upsertLog)].points)

\* ------------------------------------------------ files and process_file
Files == {"a.txt", "b.md", "d.bin"}
MissingFile == "gone.txt"

\* file_path.suffix.lower()
Suffix(f) ==
    CASE f \in {"a.txt", "gone.txt"} -> ".txt"
      [] f = "b.md" -> ".md"
      [] OTHER -> ".bin"

\* the keys of DocumentProcessor.document_formats
document_formats ==
    {".pdf", ".docx", ".doc", ".pptx", ".ppt", ".xlsx", ".xls",
     ".html", ".htm", ".txt", ".md", ".rtf"}

\* what the extractors can return for each file: two words, one word or
\* blank text, and "" when the extraction failed
FileTexts(f) ==
    CASE f = "a.txt" -> {<<"a", "\n", "b">>, <<>>}
      [] f = "b.md" -> {<<"a">>, <<" ">>}
      [] OTHER -> {<<>>}

EmbeddingDim == 1024
ZeroVector == [dim |-> EmbeddingDim, zero |-> TRUE, of |-> <<>>]

\* mutant: an empty list instead of the zero vector when the model raises
CreateEmbeddingEmptyOnError(chunk, fails) ==
    IF IsBlank(chunk) THEN ZeroVector
    ELSE IF fails THEN [dim |-> 0, zero |-> TRUE, of |-> <<>>]
    ELSE [dim |-> EmbeddingDim, zero |-> FALSE, of |-> chunk]

\* DocumentProcessor._create_embedding: a zero vector for blank text and
\* when the model raises
CreateEmbedding(chunk, fails) ==
    IF IsBlank(chunk) \/ fails
    THEN ZeroVector
    ELSE [dim |-> EmbeddingDim, zero |-> FALSE, of |-> chunk]

\* the state process_file works on
ProcState(buf, cnt, log, id) ==
    [buffer |-> buf, processed_count |-> cnt, log |-> log, nextId |-> id,
     flushes |-> 0, raised |-> FALSE, embeds |-> 0, embFailed |-> {}]

\* mutant: chunk_index counts the chunks from 1
RECURSIVE ProcessChunksOneBased(_, _, _, _, _, _, _)
ProcessChunksOneBased(f, suffix, cks, i, st, failAt, failEmbAt) ==
    IF i > Len(cks) THEN st
    ELSE IF IsBlank(cks[i])
    THEN ProcessChunksOneBased(f, suffix, cks, i + 1, st, failAt, failEmbAt)
    ELSE
        LET embedding == CreateEmbedding(cks[i], i = failEmbAt)
            payload == [file_path |-> f,
                        file_type |-> "document",
                        file_format |-> suffix,
                        text |-> cks[i],
                        chunk_index |-> i,
                        total_chunks |-> Len(cks),
                        file_size |-> Len(content[f])]
            point == CreatePoint(embedding, payload, None, st.nextId)
            r == AddToBuffer(st.buffer, st.processed_count, batch_size, point,
                             st.flushes + 1 # failAt)
            st1 == [buffer |-> r.buffer,
                    processed_count |-> r.processed_count,
                    log |-> Logged(st.log, r),
                    nextId |-> st.nextId + 1,
                    flushes |-> st.flushes + (IF r.upserted THEN 1 ELSE 0),
                    raised |-> r.raised,
                    embeds |-> st.embeds + 1,
                    embFailed |-> IF i = failEmbAt
                                  THEN st.embFailed \cup {i - 1}
                                  ELSE st.embFailed]
        IN IF r.raised THEN st1
           ELSE ProcessChunksOneBased(f, suffix, cks, i + 1, st1, failAt, failEmbAt)

\* the chunk loop of process_file from chunk i (1-based) on; the failAt-th
\* flush of this call is rejected by the store, the embedding of chunk
\* failEmbAt raises
RECURSIVE ProcessChunks(_, _, _, _, _, _, _)
ProcessChunks(f, suffix, cks, i, st, failAt, failEmbAt) ==
    IF i > Len(cks) THEN st
    ELSE IF IsBlank(cks[i])
    THEN ProcessChunks(f, suffix, cks, i + 1, st, failAt, failEmbAt)
    ELSE
        LET embedding == CreateEmbedding(cks[i], i = failEmbAt)
            payload == [file_path |-> f,
                        file_type |-> "document",
                        file_format |-> suffix,
                        text |-> cks[i],
                        chunk_index |-> i - 1,
                        total_chunks |-> Len(cks),
                        file_size |-> Len(content[f])]
            point == CreatePoint(embedding, payload, None, st.nextId)
            r == AddToBuffer(st.buffer, st.processed_count, batch_size, point,
                             st.flushes + 1 # failAt)
            st1 == [buffer |-> r.buffer,
                    processed_count |-> r.processed_count,
                    log |-> Logged(st.log, r),
                    nextId |-> st.nextId + 1,
                    flushes |-> st.flushes + (IF r.upserted THEN 1 ELSE 0),
                    raised |-> r.raised,
                    embeds |-> st.embeds + 1,
                    embFailed |-> IF i = failEmbAt
                                  THEN st.embFailed \cup {i - 1}
                                  ELSE st.embFailed]
        IN IF r.raised THEN st1
           ELSE ProcessChunks(f, suffix, cks, i + 1, st1, failAt, failEmbAt)

Returned(ret, st) == [ret |-> ret, st |-> st]

\* mutant: process_file goes on without text and without chunks
ProcessFileNoEmptyChecks(suffix, f, st, failAt, failEmbAt) ==
    IF suffix \notin document_formats THEN Returned(FALSE, st)
    ELSE LET cks == ChunkText(content[f], chunk_size)
             st1 == ProcessChunks(f, suffix, cks, 1, st, failAt, failEmbAt)
         IN Returned(~st1.raised, st1)

\* DocumentProcessor.process_file(suffix, file_path)
ProcessFile(suffix, f, st, failAt, failEmbAt) ==
    IF suffix \notin document_formats THEN Returned(FALSE, st)
    ELSE IF IsBlank(content[f]) THEN Returned(FALSE, st)
    ELSE LET cks == ChunkText(content[f], chunk_size) IN
         IF cks = <<>> THEN Returned(FALSE, st)
         ELSE LET st1 == ProcessChunks(f, suffix, cks, 1, st, failAt, failEmbAt)
              IN Returned(~st1.raised, st1)

\* the parameters process_file declares after self
ProcessFileParams == <<"suffix", "file_path">>

\* the arguments _process_document_file passes to process_file
ProcessDocumentFileArgs(f) == <<f>>

\* IndexingService._process_document_file: a call whose arguments do not
\* bind raises TypeError, which is caught and turned into False
ProcessDocumentFile(f, st, failAt, failEmbAt) ==
    LET args == ProcessDocumentFileArgs(f) IN
    IF Len(args) # Len(ProcessFileParams)
    THEN Returned(FALSE, st)
    ELSE ProcessFile(args[1], args[2], st, failAt, failEmbAt)

\* the directories index_documents can be pointed at: the documents
\* directory and an empty directory
DocsPaths == {"docs", "docs/empty"}

\* directory.rglob("*")
Listing(directory) == IF directory = "docs" THEN dirFiles ELSE {}

\* IndexingService._find_document_files
FindDocumentFiles(directory) ==
    {f \in Listing(directory) : Suffix(f) \in document_formats}

\* the batch size the service is configured with
ServiceBatchSize == 2
\* flushes and chunks one process_file call can reach with these files
MaxFlushesPerFile == 2
MaxChunksPerFile == 2

\* ------------------------------------------------------------------ Spec
Init ==
    /\ ChunkIdle
    /\ chunk_size = 1
    /\ batch_size \in 1..ServiceBatchSize
    /\ BufEmpty
    /\ content \in [Files -> UNION {FileTexts(f) : f \in Files}]
    /\ \A f \in Files : content[f] \in FileTexts(f)
    /\ dirFiles \in SUBSET Files
    /\ "d.bin" \in dirFiles
    /\ num_workers \in 1..MaxWorkers
    /\ ServiceIdle
    /\ ThreadsIdle
    /\ NoStore
    /\ SearchIdle
    /\ OpsIdle

\* the buffer after a call that worked on st
BufferBecomes(st) ==
    /\ buffer' = st.buffer
    /\ processed_count' = st.processed_count
    /\ upsertLog' = st.log
    /\ nextId' = st.nextId
    /\ UNCHANGED <<calls, lastCall>>

\* IndexingService.index_file(file_path)
IndexFile(f, failAt, failEmbAt) ==
    /\ pc = "idle"
    /\ indexCalls < MaxIndexCalls
    /\ LET st == ProcState(buffer, processed_count, upsertLog, nextId)
           r == IF f \notin Files THEN Returned(FALSE, st)
                ELSE IF Suffix(f) \in document_formats
                THEN ProcessFile(Suffix(f), f, st, failAt, failEmbAt)
                ELSE Returned(FALSE, st)
       IN /\ BufferBecomes(r.st)
          /\ lastIndex' = [file |-> f, ret |-> r.ret, first |-> nextId,
                           embeds |-> r.st.embeds, embFailed |-> r.st.embFailed,
                           raised |-> r.st.raised]
    /\ indexCalls' = indexCalls + 1
    /\ UNCHANGED <<concVars, chunkVars, confVars, fileVars, runVars>>
    /\ UNCHANGED searchVars
    /\ UNCHANGED opsVars

\* index_documents up to the submission of the files to the pool
StartRun(docs_path) ==
    /\ pc = "idle"
    /\ runs < MaxRuns
    /\ start_time' = clock
    /\ document_files' = FindDocumentFiles(docs_path)
    /\ task' = [f \in FindDocumentFiles(docs_path) |-> "queued"]
    /\ result' = [f \in FindDocumentFiles(docs_path) |-> FALSE]
    /\ dispatched' = [f \in FindDocumentFiles(docs_path) |-> 0]
    /\ pc' = IF FindDocumentFiles(docs_path) = {} THEN "stamp" ELSE "pool"
    /\ lastRun' = [outcome |-> "running", flushFailed |-> FALSE,
                   finalized |-> FALSE]
    /\ UNCHANGED <<concVars, chunkVars, confVars, bufVars, fileVars, stats, clock, runs,
                   indexVars>>
    /\ UNCHANGED searchVars
    /\ UNCHANGED opsVars

Running == {f \in document_files : task[f] = "running"}

WorkerStartUnbounded(f) ==
    /\ pc = "pool"
    /\ task[f] = "queued"
    /\ task' = [task EXCEPT ![f] = "running"]
    /\ dispatched' = [dispatched EXCEPT ![f] = @ + 1]
    /\ UNCHANGED <<concVars, chunkVars, confVars, bufVars, fileVars, pc, document_files,
                   result, stats, clock, start_time, runs, lastRun, indexVars>>
    /\ UNCHANGED searchVars
    /\ UNCHANGED opsVars

\* a pool thread takes the next submitted file
WorkerStart(f) ==
    /\ pc = "pool"
    /\ task[f] = "queued"
    /\ Cardinality(Running) < num_workers
    /\ task' = [task EXCEPT ![f] = "running"]
    /\ dispatched' = [dispatched EXCEPT ![f] = @ + 1]
    /\ UNCHANGED <<concVars, chunkVars, confVars, bufVars, fileVars, pc, document_files,
                   result, stats, clock, start_time, runs, lastRun, indexVars>>
    /\ UNCHANGED searchVars
    /\ UNCHANGED opsVars

\* the pool thread runs _process_document_file(file_path) to its return
WorkerFinish(f, failAt, failEmbAt) ==
    /\ pc = "pool"
    /\ task[f] = "running"
    /\ LET st == ProcState(buffer, processed_count, upsertLog, nextId)
           r == ProcessDocumentFile(f, st, failAt, failEmbAt)
       IN /\ BufferBecomes(r.st)
          /\ result' = [result EXCEPT ![f] = r.ret]
    /\ task' = [task EXCEPT ![f] = "done"]
    /\ UNCHANGED <<dispatched, concVars, chunkVars, confVars, fileVars, pc, document_files,
                   stats, clock, start_time, runs, lastRun, indexVars>>
    /\ UNCHANGED searchVars
    /\ UNCHANGED opsVars

CollectCountsSuccessOnly(f) ==
    /\ pc = "pool"
    /\ task[f] = "done"
    /\ task' = [task EXCEPT ![f] = "collected"]
    /\ stats' = [stats EXCEPT
          !.successful_files = IF result[f] THEN @ + 1 ELSE @,
          !.failed_files = IF result[f] THEN @ ELSE @ + 1,
          !.total_files_processed = IF result[f] THEN @ + 1 ELSE @]
    /\ UNCHANGED <<dispatched, concVars, chunkVars, confVars, bufVars, fileVars, pc, document_files,
                   result, clock, start_time, runs, lastRun, indexVars>>
    /\ UNCHANGED searchVars
    /\ UNCHANGED opsVars

\* the as_completed loop of index_documents takes a finished future
Collect(f) ==
    /\ pc = "pool"
    /\ task[f] = "done"
    /\ task' = [task EXCEPT ![f] = "collected"]
    /\ stats' = [stats EXCEPT
          !.successful_files = IF result[f] THEN @ + 1 ELSE @,
          !.failed_files = IF result[f] THEN @ ELSE @ + 1,
          !.total_files_processed = @ + 1]
    /\ UNCHANGED <<dispatched, concVars, chunkVars, confVars, bufVars, fileVars, pc, document_files,
                   result, clock, start_time, runs, lastRun, indexVars>>
    /\ UNCHANGED searchVars
    /\ UNCHANGED opsVars

ExitPoolEarly ==
    /\ pc = "pool"
    /\ \A f \in document_files : task[f] # "queued"
    /\ pc' = "finalize"
    /\ UNCHANGED <<dispatched, concVars, chunkVars, confVars, bufVars, fileVars, document_files, task,
                   result, stats, clock, start_time, runs, lastRun, indexVars>>
    /\ UNCHANGED searchVars
    /\ UNCHANGED opsVars

\* the loop is exhausted and the executor is shut down
ExitPool ==
    /\ pc = "pool"
    /\ \A f \in document_files : task[f] = "collected"
    /\ pc' = "finalize"
    /\ UNCHANGED <<dispatched, concVars, chunkVars, confVars, bufVars, fileVars, document_files, task,
                   result, stats, clock, start_time, runs, lastRun, indexVars>>
    /\ UNCHANGED searchVars
    /\ UNCHANGED opsVars

\* self.document_processor.finalize(); an exception is caught by the
\* except clause of index_documents, which goes on to _finalize_stats
RunFinalize(ok) ==
    /\ pc = "finalize"
    /\ LET r == Finalize(buffer, processed_count, ok)
       IN /\ buffer' = r.buffer
          /\ processed_count' = r.processed_count
          /\ upsertLog' = Logged(upsertLog, r)
          /\ lastRun' = [lastRun EXCEPT !.flushFailed = r.raised,
                                        !.finalized = TRUE]
    /\ pc' = "stamp"
    /\ UNCHANGED <<dispatched, concVars, chunkVars, confVars, nextId, calls, lastCall, fileVars,
                   document_files, task, result, stats, clock, start_time,
                   runs, indexVars>>
    /\ UNCHANGED searchVars
    /\ UNCHANGED opsVars

\* return self._finalize_stats(start_time); the clock has advanced by d
\* since the run started
RunStamp(d) ==
    /\ pc = "stamp"
    /\ stats' = [stats EXCEPT !.end_time = clock + d,
                              !.processing_time = clock + d - start_time]
    /\ clock' = clock + d
    /\ lastRun' = [lastRun EXCEPT !.outcome = "returned"]
    /\ runs' = runs + 1
    /\ pc' = "idle"
    /\ UNCHANGED <<dispatched, concVars, chunkVars, confVars, bufVars, fileVars, document_files, task,
                   result, start_time, indexVars>>
    /\ UNCHANGED searchVars
    /\ UNCHANGED opsVars

Next ==
    \/ \E f \in Files \cup {MissingFile}, failAt \in 0..MaxFlushesPerFile,
          failEmbAt \in 0..MaxChunksPerFile : IndexFile(f, failAt, failEmbAt)
    \/ \E docs_path \in DocsPaths : StartRun(docs_path)
    \/ \E f \in document_files : WorkerStart(f)
    \/ \E f \in document_files, failAt \in 0..MaxFlushesPerFile,
          failEmbAt \in 0..MaxChunksPerFile : WorkerFinish(f, failAt, failEmbAt)
    \/ \E f \in document_files : Collect(f)
    \/ ExitPool
    \/ \E ok \in BOOLEAN : RunFinalize(ok)
    \/ \E d \in 0..1 : RunStamp(d)

Spec == Init /\ [][Next]_vars

\* every point handed to the buffer so far, in the order of the adds
AllPoints(log, buf) == Flatten([k \in 1..Len(log) |-> log[k].points]) \o buf

\* the points added since the identifier `first` was the next fresh one
AddedSince(first, log, buf) ==
    LET New(p) == p.id >= first IN SelectSeq(AllPoints(log, buf), New)

\* this step is an index_file call that reached process_file
IndexFileStep ==
    /\ indexCalls' = indexCalls + 1
    /\ lastIndex'.file \in Files
    /\ Suffix(lastIndex'.file) \in document_formats

\* C12: process_file on a file of n >= 1 chunks adds n points in chunk
\* order with chunk_index 0..n-1 and total_chunks = n in every payload.
C12_ChunkIndexPayloads ==
    [][(IndexFileStep /\ lastIndex'.ret) =>
        LET f == lastIndex'.file
            cks == ChunkText(content[f], chunk_size)
            added == AddedSince(nextId, upsertLog', buffer')
        IN /\ Len(cks) >= 1
           /\ Len(added) = Len(cks)
           /\ \A k \in 1..Len(added) :
                 /\ added[k].payload.chunk_index = k - 1
                 /\ added[k].payload.total_chunks = Len(cks)
                 /\ added[k].payload.text = cks[k]
                 /\ added[k].payload.file_path = f]_vars

\* a file of two chunks was processed
C12_Witness ==
    /\ lastIndex.ret
    /\ lastIndex.file = "a.txt"
    /\ nextId = lastIndex.first + 2

\* C13: on blank extracted text process_file returns False without raising,
\* adds no point, computes no embedding and leaves buffer, processed_count
\* and store as they were.
C13_BlankTextFails ==
    [][(IndexFileStep /\ IsBlank(content[lastIndex'.file])) =>
        /\ ~lastIndex'.ret
        /\ ~lastIndex'.raised
        /\ lastIndex'.embeds = 0
        /\ UNCHANGED <<buffer, processed_count, upsertLog, nextId>>]_vars

\* a file of whitespace was refused after other points had been written
C13_Witness ==
    /\ lastIndex.file = "b.md"
    /\ content["b.md"] = <<" ">>
    /\ ~lastIndex.ret
    /\ upsertLog # <<>>

\* C14: when the embedder fails on a chunk and no flush fails, the chunk's
\* point is added with the 1024-dimensional zero vector and its normal
\* payload, the other chunks are processed and process_file returns True.
C14_ZeroVectorOnEmbedFailure ==
    [][(IndexFileStep /\ lastIndex'.embFailed # {} /\ ~lastIndex'.raised) =>
        LET f == lastIndex'.file
            cks == ChunkText(content[f], chunk_size)
            added == AddedSince(nextId, upsertLog', buffer')
        IN /\ lastIndex'.ret
           /\ Len(added) = Len(cks)
           /\ \A k \in 1..Len(added) :
                 /\ added[k].payload.chunk_index = k - 1
                 /\ added[k].payload.text = cks[k]
                 /\ added[k].vector.dim = 1024
                 /\ (k - 1) \in lastIndex'.embFailed =>
                       (added[k].vector.zero /\ added[k].vector = ZeroVector)
                 /\ (k - 1) \notin lastIndex'.embFailed =>
                       added[k].vector.of = cks[k]]_vars

\* the embedding of the first of two chunks failed, both points were added
C14_Witness ==
    /\ lastIndex.embFailed = {0}
    /\ lastIndex.ret
    /\ nextId = lastIndex.first + 2

\* C16: the finalize flush of a run is made only when every worker task of
\* the run has returned and been collected, no point is created during or
\* after that flush until the run returns, and end_time is written only
\* by the closing step of the run, which for a run with files comes after
\* finalize.
C16_FinalizeAfterWorkers ==
    [][/\ (pc = "finalize" /\ pc' # "finalize") =>
              \A f \in document_files : task[f] = "collected"
       /\ pc \in {"finalize", "stamp"} => nextId' = nextId
       /\ (stats'.end_time # stats.end_time) =>
              /\ pc = "stamp"
              /\ document_files # {} => lastRun.finalized]_vars

C16_Witness ==
    /\ pc = "stamp"
    /\ Cardinality(document_files) = 2
    /\ lastRun.finalized
    /\ upsertLog # <<>>
    /\ Len(upsertLog[Len(upsertLog)].points) < batch_size

\* C17: during a directory run at most num_workers files are being
\* processed at any time, no file is handed to a worker twice, and when the
\* pool is left every enumerated file has been handed to a worker once.
C17_BoundedPool ==
    /\ Cardinality(Running) <= num_workers
    /\ \A f \in document_files : dispatched[f] <= 1
    /\ (pc \in {"finalize", "stamp"} \/ (pc = "idle" /\ runs >= 1)) =>
           \A f \in document_files : dispatched[f] = 1

C17_Witness ==
    /\ pc = "pool"
    /\ Cardinality(Running) = num_workers
    /\ \E f \in document_files : task[f] = "queued"
    /\ \E f \in document_files : task[f] = "running" /\ dispatched[f] = 1

\* the files of the run whose future the as_completed loop has taken
Collected(t, files) == {f \in files : t[f] = "collected"}

\* C18: total_files_processed = successful_files + failed_files before and
\* after every step; while the pool is open a step that collects a file adds one to
\* total_files_processed and one to exactly one of successful_files and
\* failed_files (failed_files when the worker returned false), any other
\* step leaves the three counters alone, and the pool is left only when
\* every file of the run has been collected.
C18_StatsCounters ==
    [][LET delta == IF pc = "pool" /\ pc' = "pool"
                       THEN Cardinality(Collected(task', document_files))
                            - Cardinality(Collected(task, document_files))
                       ELSE 0
              got == Collected(task', document_files)
                     \ Collected(task, document_files)
          IN /\ stats.total_files_processed =
                   stats.successful_files + stats.failed_files
             /\ stats'.total_files_processed =
                   stats'.successful_files + stats'.failed_files
             /\ delta \in {0, 1}
             /\ stats'.total_files_processed =
                   stats.total_files_processed + delta
             /\ stats'.successful_files + stats'.failed_files =
                   stats.successful_files + stats.failed_files + delta
             /\ stats'.successful_files >= stats.successful_files
             /\ stats'.failed_files >= stats.failed_files
             /\ (delta = 1 /\ \A f \in got : ~result[f]) =>
                   stats'.failed_files = stats.failed_files + 1
             /\ (pc = "pool" /\ pc' # "pool") =>
                   Collected(task, document_files) = document_files]_vars

C18_Witness ==
    /\ pc = "idle"
    /\ lastRun.outcome = "returned"
    /\ num_workers = 2
    /\ Cardinality(document_files) = 2
    /\ stats.total_files_processed >= 2
    /\ stats.failed_files >= 2

\* C29: when index_documents returns, on whichever path, the point buffer
\* is empty, whatever earlier index_file calls had left in it.
C29_BufferEmptyAtReturn ==
    [][(pc = "stamp" /\ pc' = "idle") => buffer' = <<>>]_vars

\* the points the store has accepted, in the order of the upserts
Stored(log) ==
    Flatten([k \in 1..Len(log) |-> IF log[k].ok THEN log[k].points ELSE <<>>])

\* C30: after an index_file call whose process_file returned False none of
\* the file's points is in the store or in the buffer.
C30_AllOrNothing ==
    [][(IndexFileStep /\ ~lastIndex'.ret) =>
        LET New(p) == p.id >= lastIndex'.first
        IN SelectSeq(Stored(upsertLog') \o buffer', New) = <<>>]_vars

\* client.upsert: the store keeps one point per id, the last one written
CollectionAfter(log) ==
    LET pts == Stored(log)
    IN {pts[k] : k \in {i \in 1..Len(pts) :
                            \A j \in (i + 1)..Len(pts) : pts[j].id # pts[i].id}}

\* the points of the collection that carry chunk c of file f
Holding(coll, f, c) ==
    {p \in coll : p.payload.file_path = f /\ p.payload.chunk_index = c}

\* C32: a second index_file call on the same unchanged file, both calls
\* successful and everything flushed and accepted, leaves the store as the
\* first call left it: each (file_path, chunk_index) of the file is held
\* by exactly as many points as before, and by at most one.
C32_ReingestIdempotent ==
    [][(/\ IndexFileStep
        /\ lastIndex.file = lastIndex'.file
        /\ lastIndex.ret /\ lastIndex'.ret
        /\ buffer = <<>> /\ buffer' = <<>>
        /\ \A k \in 1..Len(upsertLog') : upsertLog'[k].ok) =>
        \A c \in 0..(MaxChunksPerFile - 1) :
            LET before == Holding(CollectionAfter(upsertLog), lastIndex'.file, c)
                after == Holding(CollectionAfter(upsertLog'), lastIndex'.file, c)
            IN /\ Cardinality(after) = Cardinality(before)
               /\ Cardinality(after) <= 1]_vars

\* C15: a run over a directory without supported files returns all-zero
\* counters and an end_time that is set and not before start_time, also
\* when the service has completed earlier runs.
C15_EmptyRunAllZero ==
    (pc = "idle" /\ runs >= 1 /\ document_files = {}) =>
        /\ stats.total_files_processed = 0
        /\ stats.successful_files = 0
        /\ stats.failed_files = 0
        /\ stats.end_time \in Nat
        /\ stats.end_time >= stats.start_time
        /\ stats.end_time >= start_time

\* the files of the run and those among them whose extraction gives no text
RunFiles == document_files
RunExtractionFailures == {f \in document_files : IsBlank(content[f])}

\* C1: a directory run over N supported files of which K fail extraction,
\* with every write accepted, returns successful_files = N - K,
\* failed_files = K and total_files_processed = N.
C1_DirectoryRunCounts ==
    (pc = "idle" /\ runs = 1 /\ AllAccepted) =>
        /\ stats.successful_files =
              Cardinality(RunFiles) - Cardinality(RunExtractionFailures)
        /\ stats.failed_files = Cardinality(RunExtractionFailures)
        /\ stats.total_files_processed = Cardinality(RunFiles)

\* C2: a run whose flush failed ends by raising to the caller of
\* index_documents, with end_time set; it does not return normally.
C2_FlushFailureIsFatal ==
    (pc = "idle" /\ runs >= 1 /\ lastRun.flushFailed) =>
        /\ lastRun.outcome = "raised"
        /\ stats.end_time \in Nat

\* --------------------------------------------------------------- SpecConc
\* The pool threads of index_documents share one DocumentProcessor.  This
\* specification follows MaxWorkers threads through the chunk loop of
\* process_file, one step per source line of _add_to_buffer / _flush_batch.
InitConc ==
    /\ ChunkIdle
    /\ chunk_size = 1
    /\ batch_size = ServiceBatchSize
    /\ BufEmpty
    /\ NoFiles
    /\ ServiceIdle
    /\ ThreadsIdle
    /\ NoStore
    /\ SearchIdle
    /\ OpsIdle

\* a thread enters the chunk loop of process_file with n chunks to add
EnterChunkLoop(t, n) ==
    /\ thr[t].pc = "idle"
    /\ thr' = [thr EXCEPT ![t] = [pc |-> "append", todo |-> n,
                                  exc |-> FALSE, ret |-> FALSE]]
    /\ UNCHANGED <<chunkVars, confVars, bufVars, svcVars>>
    /\ UNCHANGED searchVars
    /\ UNCHANGED opsVars

\* the thread after _add_to_buffer returned: next chunk, or return True
AfterAdd(t) ==
    IF thr[t].todo > 1
    THEN [thr[t] EXCEPT !.pc = "append", !.todo = @ - 1]
    ELSE [thr[t] EXCEPT !.pc = "done", !.todo = 0, !.ret = TRUE]

\* _add_to_buffer: self.buffer.append(point)
ThreadAppend(t) ==
    /\ thr[t].pc = "append"
    /\ buffer' = Append(buffer, CreatePoint("v", "payload", None, nextId))
    /\ nextId' = nextId + 1
    /\ thr' = [thr EXCEPT ![t].pc = "check"]
    /\ UNCHANGED <<chunkVars, confVars, processed_count, upsertLog, calls,
                   lastCall, svcVars>>
    /\ UNCHANGED searchVars
    /\ UNCHANGED opsVars

\* _add_to_buffer: if len(self.buffer) >= self.batch_size
ThreadCheck(t) ==
    /\ thr[t].pc = "check"
    /\ thr' = [thr EXCEPT ![t] =
                  IF Len(buffer) >= batch_size
                  THEN [thr[t] EXCEPT !.pc = "upsert"]
                  ELSE AfterAdd(t)]
    /\ UNCHANGED <<chunkVars, confVars, bufVars, svcVars>>
    /\ UNCHANGED searchVars
    /\ UNCHANGED opsVars

\* _flush_batch: self.qdrant.upsert(points=self.buffer)
ThreadUpsert(t, ok) ==
    /\ thr[t].pc = "upsert"
    /\ upsertLog' = Append(upsertLog, [points |-> buffer, ok |-> ok])
    /\ thr' = [thr EXCEPT ![t].pc = IF ok THEN "count" ELSE "clear",
                          ![t].exc = ~ok]
    /\ UNCHANGED <<chunkVars, confVars, buffer, processed_count, nextId, calls,
                   lastCall, svcVars>>
    /\ UNCHANGED searchVars
    /\ UNCHANGED opsVars

\* _flush_batch: self.processed_count += len(self.buffer)
ThreadCount(t) ==
    /\ thr[t].pc = "count"
    /\ processed_count' = processed_count + Len(buffer)
    /\ thr' = [thr EXCEPT ![t].pc = "clear"]
    /\ UNCHANGED <<chunkVars, confVars, buffer, upsertLog, nextId, calls,
                   lastCall, svcVars>>
    /\ UNCHANGED searchVars
    /\ UNCHANGED opsVars

\* _flush_batch: finally self.buffer = []; a raised exception ends
\* process_file with False
ThreadClear(t) ==
    /\ thr[t].pc = "clear"
    /\ buffer' = <<>>
    /\ thr' = [thr EXCEPT ![t] =
                  IF thr[t].exc
                  THEN [thr[t] EXCEPT !.pc = "done", !.ret = FALSE]
                  ELSE AfterAdd(t)]
    /\ UNCHANGED <<chunkVars, confVars, processed_count, upsertLog, nextId,
                   calls, lastCall, svcVars>>
    /\ UNCHANGED searchVars
    /\ UNCHANGED opsVars

NextConc ==
    \/ \E t \in Threads, n \in 1..MaxChunksPerFile : EnterChunkLoop(t, n)
    \/ \E t \in Threads : ThreadAppend(t)
    \/ \E t \in Threads : ThreadCheck(t)
    \/ \E t \in Threads, ok \in BOOLEAN : ThreadUpsert(t, ok)
    \/ \E t \in Threads : ThreadCount(t)
    \/ \E t \in Threads : ThreadClear(t)

SpecConc == InitConc /\ [][NextConc]_vars

\* a thread between its append and the end of the add that append began
InAddOrFlush(t) == thr[t].pc \in {"check", "upsert", "count", "clear"}

MaxShift == 1
MaxLimit == 2
ScrollLimit == 100
QueryEmbeddingDim == 1024

\* web/enums.py: the values of FileType
FileTypeValues == {"document", "image", "video", "audio"}

StoredPoints ==
    {[id |-> 1, score |-> 2,
      payload |-> [file_path |-> "a.txt", file_type |-> "document",
                   chunk_index |-> 0, text |-> "a"]],
     [id |-> 2, score |-> 1,
      payload |-> [file_path |-> "a.txt", file_type |-> "document",
                   chunk_index |-> 1, text |-> "b"]],
     [id |-> 3, score |-> 2,
      payload |-> [file_path |-> "b.md", file_type |-> "document",
                   chunk_index |-> 0, text |-> "a"]],
     [id |-> 4, score |-> 2,
      payload |-> [file_path |-> "c.zip", file_type |-> "archive",
                   chunk_index |-> 2, text |-> "z"]],
     [id |-> 5, score |-> 1,
      payload |-> [file_path |-> "e.png", file_type |-> "image"]]}

\* the arguments a caller passes to search
Queries == {<<>>, <<" ">>, <<"a">>}
ScoreThresholds == {0, 2, 3}
\* file_types (<<>> for None or an empty list) and the items of
\* metadata_filter (<<>> for None or an empty dict)
FileTypeArgs == {<<>>, <<"document">>, <<"image", "document">>}
MetadataArgs == {<<>>, << <<"file_path", "b.md">> >>}

\* dict.get(key, default)
PayloadGet(payload, key, default) ==
    IF key \in DOMAIN payload THEN payload[key] ELSE default

CreateQueryEmbeddingEmptyOnBlank(query, encoderFails) ==
    IF IsBlank(query) THEN [dim |-> 0, zero |-> TRUE, of |-> <<>>]
    ELSE IF encoderFails
    THEN [dim |-> QueryEmbeddingDim, zero |-> TRUE, of |-> <<>>]
    ELSE [dim |-> QueryEmbeddingDim, zero |-> FALSE, of |-> query]

\* QueryService._create_query_embedding: the zero vector for a blank query
\* and when the encoder raises
CreateQueryEmbedding(query, encoderFails) ==
    IF IsBlank(query) \/ encoderFails
    THEN [dim |-> QueryEmbeddingDim, zero |-> TRUE, of |-> <<>>]
    ELSE [dim |-> QueryEmbeddingDim, zero |-> FALSE, of |-> query]

FilterConditionsTypesOnly(file_types, metadata_filter) ==
    [k \in 1..Len(file_types) |-> [key |-> "file_type", value |-> file_types[k]]]

\* search_similar: filter_conditions, one FieldCondition per file-type value
\* and then one per item of metadata_filter
FilterConditions(file_types, metadata_filter) ==
    [k \in 1..Len(file_types) |-> [key |-> "file_type", value |-> file_types[k]]]
    \o [k \in 1..Len(metadata_filter) |->
           [key |-> metadata_filter[k][1], value |-> metadata_filter[k][2]]]

\* Filter(should=filter_conditions) if filter_conditions else None
SearchFilter(filter_conditions) ==
    IF filter_conditions = <<>> THEN NoFilter
    ELSE [given |-> TRUE, should |-> filter_conditions]

\* the store: a point passes a should-filter when it matches one condition
Matches(p, filter) ==
    \/ ~filter.given
    \/ \E k \in 1..Len(filter.should) :
          /\ filter.should[k].key \in DOMAIN p.payload
          /\ p.payload[filter.should[k].key] = filter.should[k].value

\* what client.search may hand back: at most limit different points of the
\* collection, in any order
HitLists(coll, limit) ==
    UNION {{h \in [1..n -> coll] : \A i, j \in 1..n : i # j => h[i] # h[j]} :
              n \in 0..limit}

\* a set of points as the list the store returns, by point id: the point
\* at position k is the one whose id has k - 1 ids of the set below it
SeqById(ps) ==
    LET ids == {p.id : p \in ps}
        rank == [i \in ids |-> Cardinality({j \in ids : j < i})]
    IN [k \in 1..Cardinality(ids) |->
           CHOOSE p \in ps : rank[p.id] = k - 1]

\* client.scroll with the range filter on chunk_index and limit=100
Scroll(coll, gte, lte) ==
    LET matching == {p \in coll : /\ "chunk_index" \in DOMAIN p.payload
                                  /\ p.payload.chunk_index >= gte
                                  /\ p.payload.chunk_index <= lte}
        all == SeqById(matching)
    IN IF Len(all) <= ScrollLimit THEN all ELSE SubSeq(all, 1, ScrollLimit)

\* sorted(list): the ascending list of the same items; the item at position
\* k is the value v with fewer than k items below it and at least k items
\* not above it
Sorted(list) ==
    LET Below(v) == Cardinality({i \in DOMAIN list : list[i] < v})
        UpTo(v) == Cardinality({i \in DOMAIN list : list[i] <= v})
    IN [k \in 1..Len(list) |->
           CHOOSE v \in {list[i] : i \in DOMAIN list} : Below(v) < k /\ k <= UpTo(v)]

\* FileType(value) raises ValueError for a value outside the enumeration
ConstructionRaises(points) ==
    \E k \in 1..Len(points) :
        PayloadGet(points[k].payload, "file_type", "document") \notin FileTypeValues

\* SearchResult(ids=..., chunks=sorted(...), file_paths=list(set(...)),
\* file_types=list(set(...)), texts=..., score=result.score)
NewSearchResult(points, score) ==
    [ids |-> [k \in 1..Len(points) |-> points[k].id],
     chunks |-> Sorted([k \in 1..Len(points) |-> points[k].payload.chunk_index]),
     file_paths |-> {PayloadGet(points[k].payload, "file_path", "") :
                        k \in 1..Len(points)},
     file_types |-> {PayloadGet(points[k].payload, "file_type", "document") :
                        k \in 1..Len(points)},
     texts |-> [k \in 1..Len(points) |-> PayloadGet(points[k].payload, "text", "")],
     score |-> score]

InitSearch ==
    /\ ChunkIdle
    /\ chunk_size = 1
    /\ batch_size = ServiceBatchSize
    /\ BufEmpty
    /\ NoFiles
    /\ ServiceIdle
    /\ ThreadsIdle
    /\ collection \in SUBSET StoredPoints
    /\ shift \in 0..MaxShift
    /\ SearchIdle
    /\ OpsIdle

\* QueryService.search up to the call of search_similar: the query embedding
\* and the search parameters
SearchCall(query, encoderFails, limit, score_threshold, file_types, metadata_filter) ==
    /\ spc = "idle"
    /\ request' = [query |-> query, limit |-> limit,
                   score_threshold |-> score_threshold,
                   file_types |-> file_types,
                   metadata_filter |-> metadata_filter]
    /\ query_embedding' = CreateQueryEmbedding(query, encoderFails)
    /\ lastSearch' = [raised |-> IF ~IsBlank(query) /\ encoderFails
                                 THEN {"embedding"} ELSE {},
                      encoderCalls |-> IF IsBlank(query) THEN 0 ELSE 1,
                      searchCalls |-> 0,
                      scrollCalls |-> 0,
                      query_vector |-> NoEmbedding,
                      search_filter |-> NoFilter,
                      hits |-> <<>>]
    /\ search_results' = <<>>
    /\ results' = <<>>
    /\ expanded' = <<>>
    /\ response' = NoResponse
    /\ spc' = "search"
    /\ UNCHANGED <<chunkVars, confVars, bufVars, svcVars, concVars, collection, shift>>
    /\ UNCHANGED opsVars

\* search_similar: the filter and client.search; an exception is caught by
\* the except clause of search_similar, which returns []
StoreSearch(hits, fails) ==
    /\ spc = "search"
    /\ LET search_filter == SearchFilter(FilterConditions(request.file_types,
                                                         request.metadata_filter))
       IN /\ \A k \in 1..Len(hits) : Matches(hits[k], search_filter)
          /\ lastSearch' = [lastSearch EXCEPT
                !.searchCalls = @ + 1,
                !.query_vector = query_embedding,
                !.search_filter = search_filter,
                !.hits = IF fails THEN <<>> ELSE hits,
                !.raised = IF fails THEN @ \cup {"search"} ELSE @]
    /\ search_results' = IF fails THEN <<>> ELSE hits
    /\ spc' = IF fails THEN "respond" ELSE "expand"
    /\ UNCHANGED <<chunkVars, confVars, bufVars, svcVars, concVars, collection, shift,
                   request, query_embedding, results, expanded, response>>
    /\ UNCHANGED opsVars

HitStepAboveThreshold(hit, score_threshold, scrollFails, coll, S) ==
    IF hit.score <= score_threshold THEN "skip"
    ELSE IF "chunk_index" \notin DOMAIN hit.payload THEN "chunk_index"
    ELSE IF scrollFails THEN "scroll"
    ELSE IF ConstructionRaises(Scroll(coll, hit.payload.chunk_index - S,
                                      hit.payload.chunk_index + S))
    THEN "construction"
    ELSE "append"

HitStepNoThreshold(hit, score_threshold, scrollFails, coll, S) ==
    IF "chunk_index" \notin DOMAIN hit.payload THEN "chunk_index"
    ELSE IF scrollFails THEN "scroll"
    ELSE IF ConstructionRaises(Scroll(coll, hit.payload.chunk_index - S,
                                      hit.payload.chunk_index + S))
    THEN "construction"
    ELSE "append"

\* search_similar, the body of the loop for one hit: what becomes of it
HitStep(hit, score_threshold, scrollFails, coll, S) ==
    IF hit.score < score_threshold THEN "skip"
    ELSE IF "chunk_index" \notin DOMAIN hit.payload THEN "chunk_index"
    ELSE IF scrollFails THEN "scroll"
    ELSE IF ConstructionRaises(Scroll(coll, hit.payload.chunk_index - S,
                                      hit.payload.chunk_index + S))
    THEN "construction"
    ELSE "append"

\* search_similar: one pass of the loop over the hits
ExpandHit(scrollFails) ==
    /\ spc = "expand"
    /\ search_results # <<>>
    /\ LET hit == Head(search_results)
           points == Scroll(collection, hit.payload.chunk_index - shift,
                            hit.payload.chunk_index + shift)
           step == HitStep(hit, request.score_threshold, scrollFails,
                           collection, shift)
       IN /\ lastSearch' = [lastSearch EXCEPT
                !.scrollCalls = IF step \in {"scroll", "construction", "append"}
                                THEN @ + 1 ELSE @,
                !.raised = IF step \in {"chunk_index", "scroll", "construction"}
                           THEN @ \cup {step} ELSE @]
          /\ IF step \in {"skip", "append"}
             THEN /\ search_results' = Tail(search_results)
                  /\ results' = IF step = "append"
                                THEN Append(results, NewSearchResult(points, hit.score))
                                ELSE results
                  /\ expanded' = IF step = "append" THEN Append(expanded, hit)
                                 ELSE expanded
                  /\ spc' = "expand"
             ELSE /\ search_results' = <<>>
                  /\ results' = <<>>
                  /\ expanded' = <<>>
                  /\ spc' = "respond"
    /\ UNCHANGED <<chunkVars, confVars, bufVars, svcVars, concVars, collection, shift,
                   request, query_embedding, response>>
    /\ UNCHANGED opsVars

\* search_similar returns its list and search wraps it in a SearchResponse
Respond ==
    /\ \/ spc = "respond"
       \/ spc = "expand" /\ search_results = <<>>
    /\ response' = [results |-> results, total_found |-> Len(results),
                    query_embedding |-> query_embedding, returned |-> TRUE]
    /\ spc' = "returned"
    /\ UNCHANGED <<chunkVars, confVars, bufVars, svcVars, concVars, collection, shift,
                   request, query_embedding, search_results, results, expanded,
                   lastSearch>>
    /\ UNCHANGED opsVars

\* the caller has taken the SearchResponse; QueryService keeps nothing of
\* a call
SearchReturn ==
    /\ spc = "returned"
    /\ spc' = "idle"
    /\ request' = NoRequest
    /\ query_embedding' = NoEmbedding
    /\ search_results' = <<>>
    /\ results' = <<>>
    /\ expanded' = <<>>
    /\ response' = NoResponse
    /\ lastSearch' = NoSearch
    /\ UNCHANGED <<chunkVars, confVars, bufVars, svcVars, concVars, collection, shift>>
    /\ UNCHANGED opsVars

NextSearch ==
    \/ \E query \in Queries, encoderFails \in BOOLEAN, limit \in 1..MaxLimit,
          score_threshold \in ScoreThresholds, file_types \in FileTypeArgs,
          metadata_filter \in MetadataArgs :
          SearchCall(query, encoderFails, limit, score_threshold, file_types,
                     metadata_filter)
    \/ \E hits \in HitLists(collection, request.limit), fails \in BOOLEAN :
          StoreSearch(hits, fails)
    \/ \E scrollFails \in BOOLEAN : ExpandHit(scrollFails)
    \/ Respond
    \/ SearchReturn

SpecSearch == InitSearch /\ [][NextSearch]_vars

\* C19: a search call in which any step raised (embedding, similarity
\* search, chunk_index of a hit, neighbourhood scroll, result construction)
\* returns an empty result sequence, and every returned response has
\* total_found = len(results).
C19_FailClosed ==
    response.returned =>
        /\ lastSearch.raised # {} => response.results = <<>>
        /\ response.total_found = Len(response.results)

\* C20: the chunk list of every SearchResult lies within [c - shift,
\* c + shift] of the chunk index c of its hit, is ascending without
\* duplicates and has at most 100 entries.
C20_NeighbourhoodChunks ==
    \A k \in 1..Len(results) :
        LET c == expanded[k].payload.chunk_index
            chunks_k == results[k].chunks
        IN /\ \A i \in 1..Len(chunks_k) :
                 chunks_k[i] >= c - shift /\ chunks_k[i] <= c + shift
           /\ \A i, j \in 1..Len(chunks_k) : i < j => chunks_k[i] < chunks_k[j]
           /\ Len(chunks_k) <= ScrollLimit

\* C21: a call of search_similar in which nothing raises returns one
\* SearchResult per hit of the store with score >= score_threshold, in the
\* order of the hits and each with the score of its hit; so it returns at
\* most limit results.
C21_OneResultPerPassingHit ==
    (response.returned /\ lastSearch.raised \ {"embedding"} = {}) =>
        LET Passing(h) == h.score >= request.score_threshold
            passing == SelectSeq(lastSearch.hits, Passing)
        IN /\ Len(response.results) = Len(passing)
           /\ expanded = passing
           /\ \A k \in 1..Len(passing) :
                 response.results[k].score = passing[k].score
           /\ Len(response.results) <= request.limit

C21_Witness ==
    /\ response.returned
    /\ lastSearch.raised = {}
    /\ Len(lastSearch.hits) = 2
    /\ lastSearch.hits[1].score < request.score_threshold
    /\ lastSearch.hits[2].score = request.score_threshold
    /\ Len(response.results) = 1

\* C22: when score_threshold is above the score of every stored point the
\* search builds no result and makes no scroll, also when the store hands
\* back hits, and returns an empty sequence.
C22_ThresholdAboveAll ==
    (spc # "idle" /\ \A p \in collection : p.score < request.score_threshold) =>
        /\ results = <<>>
        /\ lastSearch.scrollCalls = 0
        /\ response.results = <<>>
        /\ response.total_found = 0

C22_Witness ==
    /\ response.returned
    /\ \A p \in collection : p.score < request.score_threshold
    /\ Len(lastSearch.hits) = 2
    /\ lastSearch.raised = {}
    /\ response.results = <<>>

\* C23: client.search is given no filter when neither file types nor
\* metadata pairs are supplied; otherwise it is given one should-filter
\* holding one file_type condition per file-type value followed by one
\* condition per metadata pair, and every hit matches at least one of them.
C23_ShouldFilter ==
    lastSearch.searchCalls = 1 =>
        LET f == lastSearch.search_filter
            ft == request.file_types
            mf == request.metadata_filter
        IN /\ (ft = <<>> /\ mf = <<>>) => ~f.given
           /\ (ft # <<>> \/ mf # <<>>) =>
                 /\ f.given
                 /\ Len(f.should) = Len(ft) + Len(mf)
                 /\ \A k \in 1..Len(ft) :
                       f.should[k] = [key |-> "file_type", value |-> ft[k]]
                 /\ \A k \in 1..Len(mf) :
                       f.should[Len(ft) + k] =
                          [key |-> mf[k][1], value |-> mf[k][2]]
                 /\ \A h \in 1..Len(lastSearch.hits) :
                       \E k \in 1..Len(f.should) :
                          /\ f.should[k].key \in DOMAIN lastSearch.hits[h].payload
                          /\ lastSearch.hits[h].payload[f.should[k].key] =
                                f.should[k].value

C23_Witness ==
    /\ response.returned
    /\ lastSearch.search_filter.given
    /\ Len(lastSearch.search_filter.should) = 3
    /\ Len(lastSearch.hits) = 2
    /\ lastSearch.hits[1].payload.file_path = "b.md"
    /\ lastSearch.hits[2].payload.file_type = "image"

\* C24: a search with an empty or whitespace-only query does not invoke the
\* encoder, raises nothing in the embedding step, uses the zero vector of
\* length 1024 as query vector, and still calls the similarity search
\* with that vector.
C24_BlankQuery ==
    (spc # "idle" /\ IsBlank(request.query)) =>
        /\ lastSearch.encoderCalls = 0
        /\ "embedding" \notin lastSearch.raised
        /\ query_embedding.dim = 1024 /\ query_embedding.zero
        /\ spc # "search" =>
              /\ lastSearch.searchCalls = 1
              /\ lastSearch.query_vector.dim = 1024
              /\ lastSearch.query_vector.zero
        /\ response.returned =>
              response.query_embedding.dim = 1024 /\ response.query_embedding.zero

C24_Witness ==
    /\ response.returned
    /\ request.query = <<" ">>
    /\ lastSearch.searchCalls = 1
    /\ lastSearch.query_vector.zero
    /\ response.results # <<>>

\* ------------------------------------------------------------- SpecScroll
\* search_similar over a collection in which more points than the limit of
\* the neighbourhood scroll fall in one chunk-index range: a document of two
\* chunks ingested again and again, each ingestion under new point ids.
MaxExtraPoints == 1

\* the collection after n points of the document were stored
LargeCollection(n) ==
    {[id |-> 10 + i, score |-> 1 + (i % 2),
      payload |-> [file_path |-> "a.txt", file_type |-> "document",
                   chunk_index |-> i % 2, text |-> "a"]] : i \in 1..n}

InitScroll ==
    /\ ChunkIdle
    /\ chunk_size = 1
    /\ batch_size = ServiceBatchSize
    /\ BufEmpty
    /\ NoFiles
    /\ ServiceIdle
    /\ ThreadsIdle
    /\ collection \in {LargeCollection(n) :
                          n \in ScrollLimit..(ScrollLimit + MaxExtraPoints)}
    /\ shift \in 0..MaxShift
    /\ SearchIdle
    /\ OpsIdle

\* the steps of SpecSearch for calls that ask for one hit and pass no filter
NextScroll ==
    \/ \E score_threshold \in ScoreThresholds :
          SearchCall(<<"a">>, FALSE, 1, score_threshold, <<>>, <<>>)
    \/ \E hits \in HitLists(collection, request.limit), fails \in BOOLEAN :
          StoreSearch(hits, fails)
    \/ \E scrollFails \in BOOLEAN : ExpandHit(scrollFails)
    \/ Respond
    \/ SearchReturn

SpecScroll == InitScroll /\ [][NextScroll]_vars

\* C31: every SearchResult contains the hit it was expanded from: the id of
\* the hit is among the ids of the result and the chunk_index of the hit is
\* in its chunk list, whatever the collection holds.
C31_ResultContainsHit ==
    \A k \in 1..Len(results) :
        /\ \E i \in 1..Len(results[k].ids) : results[k].ids[i] = expanded[k].id
        /\ \E i \in 1..Len(results[k].chunks) :
              results[k].chunks[i] = expanded[k].payload.chunk_index

\* -------------------------------------------------------------- SpecStore
\* QdrantManager.create_collections / delete_collection against a store
\* that may be unreachable, and the health check of the web application.
MaxStoreCalls == 3

\* qdrant_config.collections: one or two different names
ConfiguredLists ==
    {<<a>> : a \in CollectionNames}
    \cup {ab \in CollectionNames \X CollectionNames : ab[1] # ab[2]}

RECURSIVE CreateLoopAlways(_, _, _, _, _, _)
CreateLoopAlways(names, k, current, st, issued, failAt) ==
    IF k > Len(names) THEN [store |-> st, issued |-> issued, raised |-> FALSE]
    ELSE IF Len(issued) + 1 = failAt
    THEN [store |-> st, issued |-> Append(issued, names[k]), raised |-> TRUE]
    ELSE CreateLoopAlways(names, k + 1, current,
                          [st EXCEPT ![names[k]] =
                              [exists |-> TRUE, created |-> @.created + 1]],
                          Append(issued, names[k]), failAt)

\* create_collections: the loop over the configured collections; current is
\* the list of names read before the loop, failAt the create call that
\* raises (0: none); the store refuses to create a name that exists
RECURSIVE CreateLoop(_, _, _, _, _, _)
CreateLoop(names, k, current, st, issued, failAt) ==
    IF k > Len(names) THEN [store |-> st, issued |-> issued, raised |-> FALSE]
    ELSE IF names[k] \in current
    THEN CreateLoop(names, k + 1, current, st, issued, failAt)
    ELSE IF Len(issued) + 1 = failAt \/ st[names[k]].exists
    THEN [store |-> st, issued |-> Append(issued, names[k]), raised |-> TRUE]
    ELSE CreateLoop(names, k + 1, current,
                    [st EXCEPT ![names[k]] =
                        [exists |-> TRUE, created |-> @.created + 1]],
                    Append(issued, names[k]), failAt)

InitStore ==
    /\ ChunkIdle
    /\ chunk_size = 1
    /\ batch_size = ServiceBatchSize
    /\ BufEmpty
    /\ NoFiles
    /\ ServiceIdle
    /\ ThreadsIdle
    /\ NoStore
    /\ SearchIdle
    /\ ModelIdle
    /\ reachable \in BOOLEAN
    /\ store \in [CollectionNames ->
                    {[exists |-> e, created |-> 0] : e \in BOOLEAN}]
    /\ configured \in ConfiguredLists
    /\ lastCreate = NoCreate
    /\ storeCalls = 0
    /\ requests_installed \in BOOLEAN
    /\ config_ok \in BOOLEAN
    /\ managers_module = "unloaded"
    /\ checks = NoChecks

\* QdrantManager.create_collections; get_collections raises when the store
\* is unreachable
CreateCollections(failAt) ==
    /\ storeCalls < MaxStoreCalls
    /\ LET current == {n \in CollectionNames : store[n].exists}
           r == IF ~reachable
                THEN [store |-> store, issued |-> <<>>, raised |-> TRUE]
                ELSE CreateLoop(configured, 1, current, store, <<>>, failAt)
       IN /\ store' = r.store
          /\ lastCreate' = [op |-> "create", issued |-> r.issued,
                            raised |-> r.raised]
    /\ storeCalls' = storeCalls + 1
    /\ UNCHANGED <<chunkVars, confVars, bufVars, svcVars, concVars, searchVars,
                   modelVars, reachable, configured, requests_installed,
                   config_ok, managers_module, checks>>

\* QdrantManager.delete_collection(name)
DeleteCollection(name, ok) ==
    /\ storeCalls < MaxStoreCalls
    /\ store' = IF reachable /\ ok
                THEN [store EXCEPT ![name] =
                         [exists |-> FALSE, created |-> @.created]]
                ELSE store
    /\ lastCreate' = [op |-> "delete", issued |-> <<>>,
                      raised |-> ~(reachable /\ ok)]
    /\ storeCalls' = storeCalls + 1
    /\ UNCHANGED <<chunkVars, confVars, bufVars, svcVars, concVars, searchVars,
                   modelVars, reachable, configured, requests_installed,
                   config_ok, managers_module, checks>>

\* the store or the network goes down or comes back
StoreChanges ==
    /\ reachable' = ~reachable
    /\ UNCHANGED <<chunkVars, confVars, bufVars, svcVars, concVars, searchVars,
                   modelVars, store, configured, lastCreate, storeCalls,
                   requests_installed, config_ok, managers_module, checks>>

\* GET /health: all_check and the status made of it.  The finally clause of
\* the first check overwrites its message; the second check imports
\* src.managers, which runs QdrantManager() (config, logger, client object)
\* when the module is not loaded yet and sends nothing to the store.
HealthCheck ==
    /\ LET import_ok == managers_module = "loaded" \/ config_ok
           failed == (IF requests_installed THEN {} ELSE {"python-ssh"})
                     \cup (IF import_ok THEN {} ELSE {"qdrant"})
           healthy == failed = {}
       IN /\ checks' = [healthy |-> healthy,
                        python_ssh |-> "OK",
                        qdrant |-> IF import_ok THEN "OK" ELSE "error",
                        status |-> IF healthy THEN "healthy" ELSE "unhealthy",
                        failed |-> failed,
                        store_reachable |-> reachable]
          /\ managers_module' = IF import_ok THEN "loaded" ELSE managers_module
    /\ UNCHANGED <<chunkVars, confVars, bufVars, svcVars, concVars, searchVars,
                   modelVars, reachable, store, configured, lastCreate,
                   storeCalls, requests_installed, config_ok>>

NextStore ==
    \/ \E failAt \in 0..2 : CreateCollections(failAt)
    \/ \E name \in CollectionNames, ok \in BOOLEAN : DeleteCollection(name, ok)
    \/ StoreChanges
    \/ HealthCheck

SpecStore == InitStore /\ [][NextStore]_vars

\* this step is a call of create_collections
CreateStep == storeCalls' = storeCalls + 1 /\ lastCreate'.op = "create"

\* C25: create_collections leaves every collection that exists as it is and
\* issues a create only for names that do not exist; when it returns
\* without raising every configured collection exists; and a call that
\* follows a call that returned issues no create and changes nothing.
C25_CreateIfAbsent ==
    [][CreateStep =>
        /\ \A n \in CollectionNames : store[n].exists => store'[n] = store[n]
        /\ \A k \in 1..Len(lastCreate'.issued) :
              ~store[lastCreate'.issued[k]].exists
        /\ ~lastCreate'.raised =>
              \A k \in 1..Len(configured) : store'[configured[k]].exists
        /\ (lastCreate.op = "create" /\ ~lastCreate.raised) =>
              /\ lastCreate'.issued = <<>>
              /\ store' = store]_vars

C25_Witness ==
    /\ storeCalls = 2
    /\ lastCreate = [op |-> "create", issued |-> <<>>, raised |-> FALSE]
    /\ Len(configured) = 2
    /\ store[configured[1]].created = 0 /\ store[configured[1]].exists
    /\ store[configured[2]].created = 1 /\ store[configured[2]].exists

\* C27: a health check made while the store is unreachable returns
\* healthy = False and status "unhealthy", and the message of a check that
\* failed reports the error, not OK.
C27_HealthReportsStore ==
    checks.status # "" =>
        /\ ~checks.store_reachable =>
              ~checks.healthy /\ checks.status = "unhealthy"
        /\ "python-ssh" \in checks.failed => checks.python_ssh = "error"
        /\ "qdrant" \in checks.failed => checks.qdrant = "error"

\* -------------------------------------------------------------- SpecModel
\* get_embedding_model behind functools.lru_cache(maxsize=1), called from
\* several threads: a call looks the key up, on a miss runs the function
\* outside the cache, and then stores its result unless the key has been
\* stored meanwhile; in both cases it returns the result it computed.
\* init_embedding_model calls it and passes its result or exception on.
MaxModelCalls == 2

InitModel ==
    /\ ChunkIdle
    /\ chunk_size = 1
    /\ batch_size = ServiceBatchSize
    /\ BufEmpty
    /\ NoFiles
    /\ ServiceIdle
    /\ ThreadsIdle
    /\ NoStore
    /\ SearchIdle
    /\ StoreIdle
    /\ ModelIdle

\* init_embedding_model -> get_embedding_model(): the cache lookup; a hit
\* returns the cached instance
CacheLookup(t) ==
    /\ caller[t].pc = "idle"
    /\ caller[t].calls < MaxModelCalls
    /\ caller' = [caller EXCEPT ![t] =
          IF cache # 0
          THEN [@ EXCEPT !.got = cache, !.calls = @ + 1]
          ELSE [@ EXCEPT !.pc = "loading"]]
    /\ UNCHANGED <<chunkVars, confVars, bufVars, svcVars, concVars, searchVars,
                   storeVars, cache, constructed>>

\* SentenceTransformer(model_name) returns a new instance or raises; the
\* exception leaves the cache as it is and reaches the caller
LoadModel(t, ok) ==
    /\ caller[t].pc = "loading"
    /\ constructed' = IF ok THEN constructed + 1 ELSE constructed
    /\ caller' = [caller EXCEPT ![t] =
          IF ok
          THEN [@ EXCEPT !.pc = "loaded", !.mine = constructed + 1]
          ELSE [@ EXCEPT !.pc = "idle", !.calls = @ + 1]]
    /\ UNCHANGED <<chunkVars, confVars, bufVars, svcVars, concVars, searchVars,
                   storeVars, cache>>

\* the wrapper stores the result if the key is still absent and returns the
\* result of this call
CacheStore(t) ==
    /\ caller[t].pc = "loaded"
    /\ cache' = IF cache = 0 THEN caller[t].mine ELSE cache
    /\ caller' = [caller EXCEPT ![t] =
          [@ EXCEPT !.pc = "idle", !.got = caller[t].mine, !.calls = @ + 1]]
    /\ UNCHANGED <<chunkVars, confVars, bufVars, svcVars, concVars, searchVars,
                   storeVars, constructed>>

NextModel ==
    \/ \E t \in Threads : CacheLookup(t)
    \/ \E t \in Threads, ok \in BOOLEAN : LoadModel(t, ok)
    \/ \E t \in Threads : CacheStore(t)

SpecModel == InitModel /\ [][NextModel]_vars

\* C26: under every interleaving of calls every caller that got a model
\* got the same instance, the one held by the cache.
C26_LoadedOnce ==
    /\ \A t \in Threads : caller[t].got # 0 => caller[t].got = cache
    /\ \A t1, t2 \in Threads :
          (caller[t1].got # 0 /\ caller[t2].got # 0) =>
              caller[t1].got = caller[t2].got

====
